---- MODULE Spec2Model ----
(***************************************************************************)
(* codybot (cmd/codybot/main.go): the Bubble Tea session state machine    *)
(* (model.Update and its handlers), the relay between the completion      *)
(* worker and the foreground loop (waitStream), and the completion worker *)
(* with its line decoder (streamCompletion).                               *)
(*                                                                         *)
(* Strings are sequences of atoms: an atom is one whitespace character or  *)
(* one run of text, and the bytes of an atom are its characters.  An       *)
(* optional value (a Go error that may be nil) is a sequence of length 0   *)
(* or 1.                                                                   *)
(***************************************************************************)
EXTENDS Naturals, Sequences, FiniteSets, TLC

\* ------------------------------------------------------------------ bounds
\* Accepted sends (workers launched) in one run of the program.
MaxSends == 2
\* Characters typed into the input box in one run of the program.
MaxInput == 2
\* Records (lines) the server delivers in one run of the program, all responses
\* together.
MaxLines == 2

\* ------------------------------------------------------------------ strings
Whitespace == {" ", "\n", "\t"}

RECURSIVE TrimLeft(_)
TrimLeft(s) ==
  IF s = <<>> THEN s
  ELSE IF Head(s) \in Whitespace THEN TrimLeft(Tail(s)) ELSE s

RECURSIVE TrimRight(_)
TrimRight(s) ==
  IF s = <<>> THEN s
  ELSE IF s[Len(s)] \in Whitespace THEN TrimRight(SubSeq(s, 1, Len(s) - 1)) ELSE s

\* strings.TrimSpace
TrimSpace(s) == TrimRight(TrimLeft(s))

\* len(s) in bytes
RECURSIVE Bytes(_)
Bytes(s) == IF s = <<>> THEN 0 ELSE Len(Head(s)) + Bytes(Tail(s))

LimitRead_All(s, n) == s

\* io.LimitReader(r, n) followed by io.ReadAll: the first n bytes, the atom the
\* limit falls in cut short.
RECURSIVE LimitRead(_, _)
LimitRead(s, n) ==
  IF s = <<>> \/ n = 0 THEN <<>>
  ELSE IF Len(Head(s)) <= n THEN <<Head(s)>> \o LimitRead(Tail(s), n - Len(Head(s)))
  ELSE <<SubSeq(Head(s), 1, n)>>

\* s written 2^k times over
RECURSIVE Rep(_, _)
Rep(s, k) == IF k = 0 THEN s ELSE Rep(s \o s, k - 1)

Nil == <<>>
Some(x) == <<x>>

\* ------------------------------------------------------------------ messages
Msg(role, content) == [role |-> role, content |-> content]

BasePrompt == <<"You are Codybot, a CLI coding agent. Be concise and practical. Ask clarifying questions only when required.">>

buildSystemPrompt(agent) ==
  IF TrimSpace(agent) = <<>> THEN BasePrompt
  ELSE BasePrompt \o <<"\n", "\n", "Project instructions (agents.md):", "\n">> \o agent

\* The starter file written by the setup flow.
defaultAgentsTemplate == <<"# agents.md", "\n", "\n", "## Mission", "\n">>

\* Contents an existing agents.md can have at start-up.
AgentFiles == { <<" ", "\n">> }

\* ------------------------------------------------------------------ stream events
\* streamMsg{token, done, err}
TokenMsg(t) == [token |-> t, done |-> FALSE, err |-> Nil]
DoneMsg == [token |-> <<>>, done |-> TRUE, err |-> Nil]
ErrMsg(e) == [token |-> <<>>, done |-> FALSE, err |-> Some(e)]

IsTerminal(m) == m.done \/ m.err # Nil
IsToken(m) == ~IsTerminal(m)

\* ------------------------------------------------------------------ wire format
\* One record of the response body as ReadString('\n') returns it.  prefix is the
\* text before the payload ("" for a blank line, "data:" for a data record,
\* anything else for a comment or another field); data is the payload text;
\* choices is what the payload decodes to when it is a well-formed frame.
Choice(content, finish) == [content |-> content, finish |-> finish]
Line(prefix, data, choices) == [prefix |-> prefix, data |-> data, choices |-> choices]

FrameText == "{choices}"
Frame(choices) == Line("data:", FrameText, choices)

BlankLine == Line("", "", <<>>)
CommentLine == Line(":", "keep-alive", <<>>)
SentinelLine == Line("data:", "[DONE]", <<>>)
GarbageLine == Line("data:", "{garbage", <<>>)
LowerDoneLine == Line("data:", "[done]", <<>>)

\* The records a server can send.
Lines ==
  { BlankLine, CommentLine, SentinelLine, GarbageLine, LowerDoneLine,
    Frame(<<>>),
    Frame(<<Choice(<<"Hi">>, "")>>),
    Frame(<<Choice(<<" ">>, "")>>),
    Frame(<<Choice(<<>>, "stop")>>),
    Frame(<<Choice(<<"a">>, ""), Choice(<<"b">>, "stop")>>),
    Frame(<<Choice(<<>>, "stop"), Choice(<<"b">>, "")>>) }

\* strings.HasPrefix(strings.TrimSpace(line), "data:"); a blank line has none.
HasDataPrefix(line) == line.prefix = "data:"

\* json.Unmarshal([]byte(data), &payload): only a well-formed frame decodes.
Unmarshal(data, choices) ==
  IF data = FrameText THEN [err |-> FALSE, choices |-> choices]
  ELSE [err |-> TRUE, choices |-> <<>>]

\* Errors, by their text.
EOF == <<"EOF">>
ErrClosed == <<"read tcp:", " ", "use of", " ", "closed network connection">>
ErrReset == <<"read tcp:", " ", "connection reset by peer">>
ErrMarshal == <<"json:", " ", "unsupported value">>
ErrNewRequest == <<"parse:", " ", "invalid URL">>
ErrDial == <<"dial tcp:", " ", "connection refused">>

Contains(s, atom) == \E i \in 1..Len(s) : s[i] = atom

errorsIsEOF(err) == err = EOF \/ Contains(err, "closed network connection")

\* What ReadString returns when the body has no further complete record.
ReadErrors == { EOF, ErrClosed, ErrReset }

\* What the body can hold after its last newline: nothing, or a record that has
\* no newline.
Tails == { BlankLine, SentinelLine, Frame(<<Choice(<<"Hi">>, "stop")>>) }

\* resp.StatusCode, resp.Status and, for an error response, its body.
BodyCap == 8192

\* A body of 8196 bytes and no newline, and a body that is a stream of records.
LongBody == <<Rep("x", 13) \o "tail">>
StreamBody == <<"data:", " ", "[DONE]", "\n">>

\* The responses client.Do can return: of the 1xx statuses net/http hands only
\* 101 to the caller.
Responses ==
  { [code |-> 200, status |-> <<"200", " ", "OK">>, body |-> <<>>],
    [code |-> 101, status |-> <<"101", " ", "Switching Protocols">>, body |-> <<>>],
    [code |-> 300, status |-> <<"300", " ", "Multiple Choices">>, body |-> StreamBody],
    [code |-> 500, status |-> <<"500", " ", "Internal Server Error">>,
     body |-> <<"boom", "\n">>],
    [code |-> 502, status |-> <<"502", " ", "Bad Gateway">>, body |-> LongBody] }

ApiError(resp) ==
  <<"API error:", " ">> \o resp.status \o <<" ", "-", " ">>
    \o TrimSpace(LimitRead(resp.body, BodyCap))

\* ------------------------------------------------------------------ decoder
\* Lines 471-479 as a function: the messages one frame's choices produce, and
\* whether a finish indicator ended the stream.
RECURSIVE ChoiceEvents(_)
ChoiceEvents(cs) ==
  IF cs = <<>> THEN [ev |-> <<>>, stop |-> FALSE]
  ELSE LET c == Head(cs)
           tok == IF c.content # <<>> THEN <<TokenMsg(c.content)>> ELSE <<>>
       IN IF c.finish # "" THEN [ev |-> tok \o <<DoneMsg>>, stop |-> TRUE]
          ELSE LET r == ChoiceEvents(Tail(cs))
               IN [ev |-> tok \o r.ev, stop |-> r.stop]

\* Lines 443-480 as a function: the messages the loop writes for the records ls
\* followed by the read error end (Nil: no read error met).
RECURSIVE Decode(_, _)
Decode(ls, end) ==
  IF ls = <<>>
  THEN IF end = Nil THEN <<>>
       ELSE IF errorsIsEOF(end[1]) THEN <<DoneMsg>>
       ELSE <<ErrMsg(end[1])>>
  ELSE LET l == Head(ls)
       IN IF ~HasDataPrefix(l) THEN Decode(Tail(ls), end)
          ELSE IF l.data = "[DONE]" THEN <<DoneMsg>>
          ELSE IF Unmarshal(l.data, l.choices).err THEN Decode(Tail(ls), end)
          ELSE LET r == ChoiceEvents(Unmarshal(l.data, l.choices).choices)
               IN IF r.stop THEN r.ev ELSE r.ev \o Decode(Tail(ls), end)

\* ------------------------------------------------------------------ worker steps
\* A worker's control state: pc is where streamCompletion stands.  It rests where
\* it blocks: at "request" (client.Do), at "read" (ReadString) and at "send", in
\* `ch <- out`, from which it goes on at `after` once the value is taken; "choice"
\* and "finish" are the two halves of the loop over a frame's choices.
Continue(pc) == [pc |-> pc, out |-> DoneMsg, after |-> pc]
Emit(m, after) == [pc |-> "send", out |-> m, after |-> after]

\* Lines 413-441: build and send the request, look at the status.
\* o.fail names the call that failed ("" when none did); o.resp is the response.
AfterRequest(o) ==
  IF o.fail = "marshal" THEN Emit(ErrMsg(ErrMarshal), "returned")
  ELSE IF o.fail = "newrequest" THEN Emit(ErrMsg(ErrNewRequest), "returned")
  ELSE IF o.fail = "do" THEN Emit(ErrMsg(ErrDial), "returned")
  ELSE IF o.resp.code >= 300 THEN Emit(ErrMsg(ApiError(o.resp)), "returned")
  ELSE Continue("read")

RequestOutcomes ==
  { [fail |-> f, resp |-> r] :
      f \in {"marshal", "newrequest", "do"},
      r \in {[code |-> 0, status |-> <<>>, body |-> <<>>]} }
  \cup { [fail |-> "", resp |-> r] : r \in Responses }

AfterReadError_AlwaysError(err) == Emit(ErrMsg(err), "returned")

AfterReadError_AlwaysDone(err) == Emit(DoneMsg, "returned")

\* Lines 446-453: ReadString failed with err.
AfterReadError(err) ==
  IF errorsIsEOF(err) THEN Emit(DoneMsg, "returned")
  ELSE Emit(ErrMsg(err), "returned")

AfterLine_AbortOnGarbage(line) ==
  IF ~HasDataPrefix(line) THEN Continue("read")
  ELSE IF line.data = "[DONE]" THEN Emit(DoneMsg, "returned")
  ELSE IF Unmarshal(line.data, line.choices).err
  THEN Emit(ErrMsg(<<"invalid character">>), "returned")
  ELSE Continue("choice")

\* Lines 455-469: one record was read.
AfterLine(line) ==
  IF ~HasDataPrefix(line) THEN Continue("read")
  ELSE IF line.data = "[DONE]" THEN Emit(DoneMsg, "returned")
  ELSE IF Unmarshal(line.data, line.choices).err THEN Continue("read")
  ELSE Continue("choice")

\* Lines 472-474: the content fragment of one choice.
AfterChoiceContent(choice) ==
  IF choice.content # <<>> THEN Emit(TokenMsg(choice.content), "finish")
  ELSE Continue("finish")

AfterChoiceFinish_NoReturn(choice) ==
  IF choice.finish # "" THEN Emit(DoneMsg, "choice")
  ELSE Continue("choice")

\* Lines 475-478: the finish indicator of one choice.
AfterChoiceFinish(choice) ==
  IF choice.finish # "" THEN Emit(DoneMsg, "returned")
  ELSE Continue("choice")

AfterReadString_DecodeTail(line, err) ==
  IF err # Nil /\ ~HasDataPrefix(line) THEN AfterReadError(err[1])
  ELSE AfterLine(line)

\* Lines 445-455: ReadString returned line and err; with an error, line is what
\* was read of a record that has no newline, and is not looked at.
AfterReadString(line, err) ==
  IF err # Nil THEN AfterReadError(err[1])
  ELSE AfterLine(line)

\* Lines 471-479, then back to line 445: from pc, with choice ci of the frame's
\* choices next, run to the point where the worker blocks again.
RECURSIVE Resume(_, _, _)
Resume(pc, choices, ci) ==
  IF pc = "choice"
  THEN IF ci > Len(choices)
       THEN [at |-> Continue("read"), ci |-> ci]
       ELSE LET r == AfterChoiceContent(choices[ci])
            IN IF r.pc = "send" THEN [at |-> r, ci |-> ci]
               ELSE Resume(r.pc, choices, ci)
  ELSE IF pc = "finish"
  THEN LET r == AfterChoiceFinish(choices[ci])
       IN IF r.pc = "send" THEN [at |-> r, ci |-> ci + 1]
          ELSE Resume(r.pc, choices, ci + 1)
  ELSE [at |-> Continue(pc), ci |-> ci]

\* ------------------------------------------------------------------ state
VARIABLES
  state,            \* model.state: "setup" or "chat"
  agentContent,     \* model.agentContent
  system,           \* model.system
  history,          \* model.history
  transcript,       \* model.transcript
  input,            \* model.input.Value()
  streaming,        \* model.streaming
  streamCh,         \* model.streamCh: a channel id, 0 for nil
  currentResponse,  \* *model.currentResponse
  lastErr,          \* model.lastErr
  size,             \* <<model.width, model.height>>
  quit,             \* tea.Quit was returned: the program has ended
  launched,         \* the number of channels made, and of workers started, so far
  workers,          \* the streamCompletion goroutines, worker i sends on channel i
  waiting,          \* channels a pending waitStream command is receiving from
  msgs,             \* stream messages received by a command, not yet given to Update
  typed,            \* the number of characters typed so far
  received,         \* the number of records the server has delivered so far
  step,             \* history variable: the step that led to this state
  turn              \* history variable: the session right after the last accepted send

vars == <<state, agentContent, system, history, transcript, input, streaming, streamCh,
          currentResponse, lastErr, size, quit, launched, workers, waiting, msgs, typed,
          received, step, turn>>

sessionVars == <<state, agentContent, system, history, transcript, input, streaming,
                 streamCh, currentResponse, lastErr, size, quit, launched>>

\* Window sizes the terminal reports.
Sizes == { <<80, 24>> }

\* Characters a key press can add to the input box.
Keys == { "a", " " }

ErrWrite == <<"open agents.md:", " ", "permission denied">>

\* ------------------------------------------------------------------ session operators
appendTranscript_Prepend(t, text) == text \o t

appendTranscript_Replace(t, text) == text

\* model.appendTranscript
appendTranscript(t, text) == t \o text

\* newModel, updateSetup: the system message of the given instructions.
SystemMessage(agent) == Msg("system", buildSystemPrompt(agent))

SetupHistory_Stale(sys) == history

\* Line 251: the history after the setup flow has read the new agents.md.
SetupHistory(sys) == <<sys>>

ClearHistory_Keep(sys) == history

\* Line 273: the history a clear leaves.
ClearHistory(sys) == <<sys>>

ClearStreaming_Idle(s) == FALSE

\* Lines 268-275 do not assign model.streaming.
ClearStreaming(s) == s

EnterCase_NoGuard(isStreaming, text) == IF text = <<>> THEN "empty" ELSE "send"

\* Lines 277-283: what Enter does: "busy" (a stream is in flight), "empty"
\* (nothing to send) or "send".
EnterCase(isStreaming, text) ==
  IF isStreaming THEN "busy"
  ELSE IF text = <<>> THEN "empty"
  ELSE "send"

\* Line 285
UserPrefix(text) == <<"You:", " ">> \o text \o <<"\n", "\n", "Assistant:", " ">>

\* Line 303
ErrorText(err) == <<"\n", "\n", "[error]", " ">> \o err \o <<"\n", "\n">>

ErrorLastErr_Dropped(err) == Nil

\* Line 302
ErrorLastErr(err) == Some(err)

\* Line 309
DoneSeparator == <<"\n", "\n">>

DoneHistory_Trimmed(h, response) ==
  IF TrimSpace(response) # <<>> THEN Append(h, Msg("assistant", TrimSpace(response))) ELSE h

DoneHistory_Always(h, response) == Append(h, Msg("assistant", response))

\* Lines 311-313
DoneHistory(h, response) ==
  IF TrimSpace(response) # <<>> THEN Append(h, Msg("assistant", response)) ELSE h

\* Lines 404-411: a worker as `go streamCompletion(ctx, cfg, history, ch)` starts it.
\* messages is the slice the go statement passed: its length is fixed there, and
\* the foreground only ever appends to its own slice or replaces it (lines 273,
\* 286, 312), so the elements the worker can see do not change.
\* sent, lines, readErr, tail, emitted and handled are history variables: the
\* messages of the request body, the records read, the error that ended the
\* reading and the unterminated record read with it, the messages written to
\* the channel and the number of them Update has processed.
NewWorker(ch, h) ==
  [ch |-> ch, messages |-> h, pc |-> "request", out |-> DoneMsg, after |-> "request",
   choices |-> <<>>, ci |-> 0, outcome |-> "", sent |-> <<>>, lines |-> <<>>,
   readErr |-> Nil, tail |-> BlankLine, emitted |-> <<>>, handled |-> 0]

RequestMessages_Live(w) == history

\* Lines 405-413: the "messages" of the request payload are the parameter.
RequestMessages(w) == w.messages

TokenWait_None(isStreaming, ch) == {}

\* Lines 325-328: the channels the command returned after a token receives from.
TokenWait(isStreaming, ch) == IF isStreaming THEN {ch} ELSE {}

\* The turn record once a clear has wiped what the send left.
NoTurn == [hist |-> <<>>, trans |-> <<>>, text |-> <<>>, cleared |-> TRUE]

\* The goroutines worth remembering when a send or a clear starts afresh: one that
\* has returned, all its messages processed, is gone.
Running ==
  { i \in DOMAIN workers :
      ~(workers[i].pc = "returned" /\ workers[i].handled = Len(workers[i].emitted)) }

Init ==
  /\ \E exists \in BOOLEAN :
       IF exists
       THEN /\ agentContent \in AgentFiles
            /\ state = "chat"
       ELSE /\ agentContent = <<>>
            /\ state = "setup"
  /\ system = SystemMessage(agentContent)
  /\ history = <<system>>
  /\ transcript = <<>>
  /\ input = <<>>
  /\ streaming = FALSE
  /\ streamCh = 0
  /\ currentResponse = <<>>
  /\ lastErr = Nil
  /\ size = <<0, 0>>
  /\ quit = FALSE
  /\ launched = 0
  /\ workers = <<>>
  /\ waiting = {}
  /\ msgs = {}
  /\ typed = 0
  /\ received = 0
  /\ step = "init"
  /\ turn = [hist |-> history, trans |-> <<>>, text |-> <<>>, cleared |-> FALSE]

\* ------------------------------------------------------------------ setup
\* updateSetup, "y": the template is written and read back.
updateSetupYes ==
  /\ ~quit /\ state = "setup"
  /\ \E wrote \in BOOLEAN, read \in BOOLEAN :
       IF ~wrote
       THEN /\ lastErr' = Some(ErrWrite)
            /\ UNCHANGED <<agentContent, system, history>>
       ELSE IF read
       THEN /\ agentContent' = defaultAgentsTemplate
            /\ system' = Msg("system", buildSystemPrompt(agentContent'))
            /\ history' = SetupHistory(system')
            /\ UNCHANGED lastErr
       ELSE UNCHANGED <<agentContent, system, history, lastErr>>
  /\ state' = "chat"
  /\ step' = "setup"
  /\ UNCHANGED <<typed, received>>
  /\ UNCHANGED <<transcript, input, streaming, streamCh, currentResponse, size, quit,
                 launched, workers, waiting, msgs, turn>>

\* updateSetup, "n"
updateSetupNo ==
  /\ ~quit /\ state = "setup"
  /\ state' = "chat"
  /\ step' = "setup"
  /\ UNCHANGED <<typed, received>>
  /\ UNCHANGED <<agentContent, system, history, transcript, input, streaming, streamCh,
                 currentResponse, lastErr, size, quit, launched, workers, waiting, msgs, turn>>

\* updateSetup and updateChatKeys, "ctrl+c" and "esc": tea.Quit ends the program.
KeyQuit ==
  /\ ~quit
  /\ quit' = TRUE
  /\ step' = "quit"
  /\ UNCHANGED <<typed, received>>
  /\ UNCHANGED <<state, agentContent, system, history, transcript, input, streaming,
                 streamCh, currentResponse, lastErr, size, launched, workers, waiting, msgs,
                 turn>>

\* ------------------------------------------------------------------ chat keys
\* updateChatKeys, "ctrl+l"
KeyClear ==
  /\ ~quit /\ state = "chat"
  /\ transcript' = <<>>
  /\ currentResponse' = <<>>
  /\ history' = ClearHistory(system)
  /\ streaming' = ClearStreaming(streaming)
  /\ step' = "clear"
  /\ UNCHANGED <<typed, received>>
  /\ turn' = NoTurn
  /\ workers' = [i \in Running |-> workers[i]]
  /\ UNCHANGED <<state, agentContent, system, input, streamCh, lastErr, size, quit,
                 launched, waiting, msgs>>

\* updateChatKeys, "enter"
KeyEnter ==
  /\ ~quit /\ state = "chat"
  /\ LET text == TrimSpace(input)
         what == EnterCase(streaming, text)
     IN IF what = "send"
        THEN /\ launched < MaxSends
             /\ input' = <<>>
             /\ transcript' = appendTranscript(transcript, UserPrefix(text))
             /\ history' = Append(history, Msg("user", text))
             /\ streaming' = TRUE
             /\ lastErr' = Nil
             /\ currentResponse' = <<>>
             /\ streamCh' = launched + 1
             /\ launched' = launched + 1
             /\ workers' = [i \in Running \cup {streamCh'} |->
                              IF i = streamCh' THEN NewWorker(i, history') ELSE workers[i]]
             /\ waiting' = waiting \cup {streamCh'}
             /\ turn' = [hist |-> history', trans |-> transcript', text |-> text,
                         cleared |-> FALSE]
        ELSE UNCHANGED <<input, transcript, history, streaming, lastErr,
                         currentResponse, streamCh, launched, workers, waiting, turn>>
  /\ step' = "enter"
  /\ UNCHANGED <<typed, received>>
  /\ UNCHANGED <<state, agentContent, system, size, quit, msgs>>

\* Update, any other key: the input box takes it.
KeyOther ==
  /\ ~quit /\ state = "chat"
  /\ typed < MaxInput
  /\ \E c \in Keys : input' = Append(input, c)
  /\ step' = "key"
  /\ typed' = typed + 1
  /\ UNCHANGED received
  /\ UNCHANGED <<state, agentContent, system, history, transcript, streaming, streamCh,
                 currentResponse, lastErr, size, quit, launched, workers, waiting, msgs, turn>>

\* Update, tea.WindowSizeMsg: applySize
applySize ==
  /\ ~quit
  /\ \E wh \in Sizes : size' = wh
  /\ step' = "resize"
  /\ UNCHANGED <<typed, received>>
  /\ UNCHANGED <<state, agentContent, system, history, transcript, input, streaming,
                 streamCh, currentResponse, lastErr, quit, launched, workers, waiting,
                 msgs, turn>>

\* ------------------------------------------------------------------ relay
\* waitStream: the pending command receives what worker i is blocked sending
\* (the channel is unbuffered) and hands it to the program as a message.
waitStream ==
  /\ ~quit
  /\ \E i \in waiting :
       /\ workers[i].pc = "send"
       /\ msgs' = msgs \cup {[ch |-> i, msg |-> workers[i].out]}
       /\ waiting' = waiting \ {i}
       /\ LET r == Resume(workers[i].after, workers[i].choices, workers[i].ci)
          IN workers' = [workers EXCEPT ![i].pc = r.at.pc,
                                        ![i].out = r.at.out,
                                        ![i].after = r.at.after,
                                        ![i].ci = r.ci,
                                        ![i].emitted = Append(@, workers[i].out)]
  /\ step' = "relay"
  /\ UNCHANGED <<typed, received>>
  /\ UNCHANGED <<sessionVars, turn>>

\* The bookkeeping of Update taking message m.
Handled(m) == [workers EXCEPT ![m.ch].handled = @ + 1]

\* handleStreamMsg, msg.err != nil (lines 300-305)
handleStreamErr ==
  /\ ~quit
  /\ \E m \in msgs :
       /\ m.msg.err # Nil
       /\ streaming' = FALSE
       /\ lastErr' = ErrorLastErr(m.msg.err[1])
       /\ transcript' = appendTranscript(transcript, ErrorText(m.msg.err[1]))
       /\ msgs' = msgs \ {m}
       /\ workers' = Handled(m)
  /\ step' = "error"
  /\ UNCHANGED <<typed, received>>
  /\ UNCHANGED <<state, agentContent, system, history, input, streamCh, currentResponse,
                 size, quit, launched, waiting, turn>>

\* handleStreamMsg, msg.done (lines 307-316)
handleStreamDone ==
  /\ ~quit
  /\ \E m \in msgs :
       /\ m.msg.err = Nil /\ m.msg.done
       /\ streaming' = FALSE
       /\ transcript' = appendTranscript(transcript, DoneSeparator)
       /\ history' = DoneHistory(history, currentResponse)
       /\ msgs' = msgs \ {m}
       /\ workers' = Handled(m)
  /\ step' = "done"
  /\ UNCHANGED <<typed, received>>
  /\ UNCHANGED <<state, agentContent, system, input, streamCh, currentResponse, lastErr,
                 size, quit, launched, waiting, turn>>

\* handleStreamMsg, a token (lines 318-328)
handleStreamToken ==
  /\ ~quit
  /\ \E m \in msgs :
       /\ m.msg.err = Nil /\ ~m.msg.done
       /\ IF m.msg.token # <<>>
          THEN /\ transcript' = appendTranscript(transcript, m.msg.token)
               /\ currentResponse' = currentResponse \o m.msg.token
          ELSE UNCHANGED <<transcript, currentResponse>>
       /\ waiting' = waiting \cup TokenWait(streaming, streamCh)
       /\ msgs' = msgs \ {m}
       /\ workers' = Handled(m)
  /\ step' = "token"
  /\ UNCHANGED <<typed, received>>
  /\ UNCHANGED <<state, agentContent, system, history, input, streaming, streamCh,
                 lastErr, size, quit, launched, turn>>

\* ------------------------------------------------------------------ worker
Move(i, r) == [workers EXCEPT ![i].pc = r.pc, ![i].out = r.out, ![i].after = r.after]

\* streamCompletion, lines 405-441
streamCompletionRequest(Outcomes) ==
  /\ ~quit
  /\ \E i \in DOMAIN workers :
       /\ workers[i].pc = "request"
       /\ \E o \in Outcomes :
            workers' = [Move(i, AfterRequest(o)) EXCEPT
                          ![i].outcome = IF o.fail # "" THEN o.fail ELSE o.resp.status[1],
                          ![i].sent = IF o.fail \in {"marshal", "newrequest"} THEN <<>>
                                      ELSE RequestMessages(workers[i])]
  /\ step' = "worker"
  /\ UNCHANGED <<typed, received>>
  /\ UNCHANGED <<sessionVars, waiting, msgs, turn>>

\* streamCompletion, lines 445-479: one ReadString and what follows it, up to
\* the next ReadString or channel send.
streamCompletionRead(Records, Errs, Rests) ==
  /\ ~quit
  /\ \E i \in DOMAIN workers :
       /\ workers[i].pc = "read"
       /\ \/ /\ received < MaxLines
             /\ received' = received + 1
             /\ \E line \in Records :
                  LET a == AfterReadString(line, Nil)
                      choices == Unmarshal(line.data, line.choices).choices
                      r == Resume(a.pc, choices, 1)
                  IN workers' = [Move(i, IF a.pc = "send" THEN a ELSE r.at) EXCEPT
                                   ![i].lines = Append(@, line),
                                   ![i].choices = choices,
                                   ![i].ci = r.ci]
          \/ /\ UNCHANGED received
             /\ \E err \in Errs, line \in Rests :
                  LET a == AfterReadString(line, Some(err))
                      choices == Unmarshal(line.data, line.choices).choices
                      r == Resume(a.pc, choices, 1)
                  IN workers' = [Move(i, IF a.pc = "send" THEN a ELSE r.at) EXCEPT
                                   ![i].readErr = Some(err),
                                   ![i].tail = line,
                                   ![i].choices = choices,
                                   ![i].ci = r.ci]
  /\ step' = "worker"
  /\ UNCHANGED typed
  /\ UNCHANGED <<sessionVars, waiting, msgs, turn>>

\* ------------------------------------------------------------------ specification
\* Spec: the whole program, every key and both screens, against a server that
\* answers with content frames and the sentinel, or fails.
SessionOutcomes == { o \in RequestOutcomes : o.fail \in {"", "do"} /\ o.resp.code \in {0, 200} }
SessionLines == { Frame(<<Choice(<<"Hi">>, "")>>), Frame(<<Choice(<<" ">>, "")>>), SentinelLine }
SessionReadErrors == { EOF, ErrReset }
SessionTails == { BlankLine }

Next ==
  \/ updateSetupYes
  \/ updateSetupNo
  \/ KeyQuit
  \/ KeyClear
  \/ KeyEnter
  \/ KeyOther
  \/ applySize
  \/ waitStream
  \/ handleStreamErr
  \/ handleStreamDone
  \/ handleStreamToken
  \/ streamCompletionRequest(SessionOutcomes)
  \/ streamCompletionRead(SessionLines, SessionReadErrors, SessionTails)

Spec == Init /\ [][Next]_vars

\* SpecWorker: one chat session, started with an agents.md, against a request
\* that fails or is answered 200 or 500, and every record and read error of the
\* wire format.
InitWorker == Init /\ state = "chat"

WorkerOutcomes == { o \in RequestOutcomes : o.resp.code \in {0, 200, 500} }

NextWorker ==
  \/ KeyOther
  \/ KeyEnter
  \/ waitStream
  \/ handleStreamErr
  \/ handleStreamDone
  \/ handleStreamToken
  \/ streamCompletionRequest(WorkerOutcomes)
  \/ streamCompletionRead(Lines, ReadErrors, SessionTails)

SpecWorker == InitWorker /\ [][NextWorker]_vars

\* SpecBody: one chat session against every response status and every way a
\* body can end, the records being content frames and the sentinel.
NextBody ==
  \/ KeyOther
  \/ KeyEnter
  \/ waitStream
  \/ handleStreamErr
  \/ handleStreamDone
  \/ handleStreamToken
  \/ streamCompletionRequest(RequestOutcomes)
  \/ streamCompletionRead(SessionLines, ReadErrors, Tails)

SpecBody == InitWorker /\ [][NextBody]_vars

\* SpecLive: the chat screen with clear and quit, every goroutine and pending
\* command scheduled sooner or later: a runnable worker runs (and the server,
\* whose response is finite, answers its request and its reads), a pending
\* waitStream receives what a worker is sending, and Update processes every
\* message delivered to the program.
LiveLines == { Frame(<<Choice(<<"Hi">>, "")>>), SentinelLine }
LiveReadErrors == { EOF }

NextLive ==
  \/ KeyQuit
  \/ KeyClear
  \/ KeyEnter
  \/ KeyOther
  \/ waitStream
  \/ handleStreamErr
  \/ handleStreamDone
  \/ handleStreamToken
  \/ streamCompletionRequest(SessionOutcomes)
  \/ streamCompletionRead(LiveLines, LiveReadErrors, SessionTails)

Fairness ==
  /\ WF_vars(waitStream)
  /\ WF_vars(handleStreamErr)
  /\ WF_vars(handleStreamDone)
  /\ WF_vars(handleStreamToken)
  /\ WF_vars(streamCompletionRequest(SessionOutcomes))
  /\ WF_vars(streamCompletionRead(LiveLines, LiveReadErrors, SessionTails))

SpecLive == InitWorker /\ [][NextLive]_vars /\ Fairness

\* ------------------------------------------------------------------ claims
\* The text of the tokens in a sequence of stream messages, in order.
RECURSIVE Tokens(_)
Tokens(e) == IF e = <<>> THEN <<>> ELSE Head(e).token \o Tokens(Tail(e))

Last(q) == q[Len(q)]

\* C1: an Enter pressed while the session is streaming changes nothing, whatever
\* the input box holds: history, transcript, the streaming flag, the last error,
\* the partial-response buffer and the relay handle stay as they were, and no
\* worker or relay command is started.
C1_SingleFlightGuard ==
  [][(step' = "enter" /\ streaming) =>
       UNCHANGED <<history, transcript, streaming, lastErr, currentResponse, streamCh,
                   launched, workers, waiting>>]_vars

\* Enter was pressed on a non-blank input while a stream was in flight.
C1_Witness == step = "enter" /\ streaming /\ TrimSpace(input) # <<>>

\* C2: when Done is processed for a stream whose tokens t1..tn have a non-blank
\* concatenation s, and no clear came after the send, history is the history left
\* by the send plus one assistant message holding exactly s (untrimmed), and the
\* transcript is the transcript left by the send, then s, then two newlines.
C2_TokenConcatenation ==
  (step = "done" /\ ~turn.cleared
     /\ TrimSpace(Tokens(workers[streamCh].emitted)) # <<>>) =>
    LET s == Tokens(workers[streamCh].emitted)
    IN /\ history = Append(turn.hist, Msg("assistant", s))
       /\ transcript = turn.trans \o s \o <<"\n", "\n">>

\* Two tokens, "Hi" and " ", then Done: the message keeps the trailing blank.
C2_Witness ==
  /\ step = "done" /\ ~turn.cleared
  /\ Len(workers[streamCh].emitted) = 3
  /\ Tokens(workers[streamCh].emitted) = <<"Hi", " ">>

\* C3: processing Error(e) leaves the session idle with last error e and appends
\* nothing to history; when no clear came after the send, history is still the
\* history left by the send, whose last element is the user message of that send.
C3_ErrorKeepsHistory ==
  [][step' = "error" =>
       /\ ~streaming'
       /\ lastErr' = Last(workers'[streamCh'].emitted).err
       /\ lastErr' # Nil
       /\ history' = history
       /\ ~turn.cleared =>
            /\ history' = turn.hist
            /\ Last(history') = Msg("user", turn.text)]_vars

\* A read error after one token was shown.
C3_Witness ==
  /\ step = "error" /\ ~turn.cleared
  /\ currentResponse = <<"Hi">>
  /\ lastErr = Some(ErrReset)

\* C4: right after a clear, history is the system message of the current project
\* instructions alone, and the transcript and the partial-response buffer are empty.
C4_ClearResets ==
  step = "clear" =>
    /\ history = <<Msg("system", buildSystemPrompt(agentContent))>>
    /\ transcript = <<>>
    /\ currentResponse = <<>>

\* Clear was pressed while a stream was in flight, one of its tokens processed.
C4_Witness ==
  /\ step = "clear" /\ streaming
  /\ workers[streamCh].handled >= 1

\* C5: a worker that has returned has written at least one message and its last
\* one is Done or Error; at every moment a Done or Error a worker has written is
\* the last message it wrote and the worker has returned, so nothing follows it.
C5_OneTerminalEvent ==
  \A i \in DOMAIN workers :
    LET w == workers[i]
    IN /\ w.pc = "returned" => (w.emitted # <<>> /\ IsTerminal(Last(w.emitted)))
       /\ \A k \in 1..Len(w.emitted) :
            IsTerminal(w.emitted[k]) => (k = Len(w.emitted) /\ w.pc = "returned")

\* A worker returned after two tokens and a Done from a finish indicator.
C5_Witness ==
  \E i \in DOMAIN workers :
    /\ workers[i].pc = "returned"
    /\ workers[i].emitted = <<TokenMsg(<<"a">>), TokenMsg(<<"b">>), DoneMsg>>

\* The workers whose Done or Error the state machine has not processed yet.
LiveWorkers ==
  { i \in DOMAIN workers :
      \A k \in 1..workers[i].handled : ~IsTerminal(workers[i].emitted[k]) }

\* C6: at most one worker is live (started, its Done or Error not yet processed),
\* whatever the order of sends, clears, resizes and stream messages.
C6_SingleFlight == Cardinality(LiveWorkers) <= 1

\* After a clear during a stream, Enter on a non-blank input with the worker live.
C6_Witness ==
  /\ step = "enter" /\ turn.cleared /\ TrimSpace(input) # <<>>
  /\ Cardinality(LiveWorkers) = 1

\* C7: no assistant message in history is blank; and when Done is processed with
\* a blank partial-response buffer, history and the (nil) last error stay as they
\* are, while the transcript holds every token of the stream: with no clear since
\* the send it is the transcript of the send, the tokens and two newlines.
C7_EmptyTurnSuppressed ==
  /\ [](\A k \in 1..Len(history) :
          history[k].role = "assistant" => TrimSpace(history[k].content) # <<>>)
  /\ [][(step' = "done" /\ TrimSpace(currentResponse) = <<>>) =>
          /\ history' = history
          /\ lastErr' = Nil
          /\ transcript' = transcript \o <<"\n", "\n">>
          /\ ~turn.cleared =>
               transcript' = turn.trans \o Tokens(workers'[streamCh'].emitted)
                               \o <<"\n", "\n">>]_vars

\* Done processed after two whitespace tokens.
C7_Witness ==
  /\ step = "done" /\ ~turn.cleared
  /\ currentResponse = <<" ", " ">>
  /\ Len(history) = 2

\* C8: history is never empty, its first element is the session's system message,
\* of role system, and no later element has that role; Enter, a token, Done,
\* Error and clear leave the first element as it is.
C8_HistoryHead ==
  /\ [](/\ Len(history) >= 1
        /\ history[1] = system
        /\ system.role = "system"
        /\ \A k \in 2..Len(history) : history[k].role # "system")
  /\ [][step' \in {"enter", "token", "done", "error", "clear"} =>
          history'[1] = history[1]]_vars

\* Two completed turns after the setup flow wrote agents.md.
C8_Witness ==
  /\ agentContent = defaultAgentsTemplate
  /\ Len(history) = 5

\* A data record that is neither the sentinel nor a well-formed frame.
Malformed(l) == l.prefix = "data:" /\ l.data \notin {"[DONE]", FrameText}
WellFormed(l) == ~Malformed(l)

\* C9: the messages a worker wrote for the records it read are the messages the
\* decode loop writes for those records with the malformed ones taken out.
C9_DecoderTolerance ==
  \A i \in DOMAIN workers :
    (workers[i].pc = "returned" /\ workers[i].outcome = "200") =>
      workers[i].emitted = Decode(SelectSeq(workers[i].lines, WellFormed),
                                  workers[i].readErr)

\* A malformed record, then a content frame, then the end of the body.
C9_Witness ==
  \E i \in DOMAIN workers :
    /\ workers[i].pc = "returned"
    /\ workers[i].lines = <<GarbageLine, Frame(<<Choice(<<"Hi">>, "")>>)>>
    /\ workers[i].emitted = <<TokenMsg(<<"Hi">>), DoneMsg>>

\* C10: a worker whose reading ended with EOF wrote exactly one Done, as its last
\* message, and no Error; once that Done is processed the session is idle with
\* no last error.
C10_OrderlyEOF ==
  /\ \A i \in DOMAIN workers :
       LET w == workers[i]
       IN (w.pc = "returned" /\ w.readErr = Some(EOF)) =>
            /\ Last(w.emitted) = DoneMsg
            /\ \A k \in 1..Len(w.emitted) : w.emitted[k].err = Nil
            /\ Cardinality({k \in 1..Len(w.emitted) : w.emitted[k].done}) = 1
  /\ (step = "done" /\ workers[streamCh].readErr = Some(EOF)) =>
       (~streaming /\ lastErr = Nil)

\* The body ended after one content frame and the resulting Done was processed.
C10_Witness ==
  /\ step = "done"
  /\ workers[streamCh].readErr = Some(EOF)
  /\ workers[streamCh].emitted = <<TokenMsg(<<"Hi">>), DoneMsg>>
  /\ history = Append(turn.hist, Msg("assistant", <<"Hi">>))

\* The worker's steps and the decode function agree on every body.
WorkerMatchesDecode ==
  \A i \in DOMAIN workers :
    (workers[i].pc = "returned" /\ workers[i].outcome = "200") =>
      workers[i].emitted = Decode(workers[i].lines, workers[i].readErr)

\* The characters of s as one string.
RECURSIVE Flat(_)
Flat(s) == IF s = <<>> THEN "" ELSE Head(s) \o Flat(Tail(s))

StartsWith(s, p) == Len(p) <= Len(s) /\ SubSeq(s, 1, Len(p)) = p

\* The response worker w was given, when its request got one.
ResponseOf(w) == { r \in Responses : r.status[1] = w.outcome }

\* What worker w did is right for an error response r: no record read, nothing
\* written but one Error, whose text is the status of r followed by at most
\* BodyCap bytes from the start of the body of r (its surrounding whitespace
\* trimmed), the whole body when it is that short.
ErrorOnly(w, r) ==
  /\ w.lines = <<>>
  /\ w.readErr = Nil
  /\ Len(w.emitted) <= 1
  /\ w.pc = "returned" => Len(w.emitted) = 1
  /\ \A k \in 1..Len(w.emitted) :
       LET m == w.emitted[k]
           head == <<"API error:", " ">> \o r.status \o <<" ", "-", " ">>
       IN /\ m.err # Nil /\ ~m.done /\ m.token = <<>>
          /\ StartsWith(m.err[1], head)
          /\ LET text == SubSeq(m.err[1], Len(head) + 1, Len(m.err[1]))
             IN /\ Bytes(text) <= BodyCap
                /\ StartsWith(Flat(TrimLeft(r.body)), Flat(text))
                /\ Bytes(r.body) <= BodyCap => text = TrimSpace(r.body)

C12_SnapshotIsolation ==
  [][/\ (step' = "enter" /\ launched' # launched) =>
          /\ history' = Append(history, Msg("user", TrimSpace(input)))
          /\ workers'[streamCh'].messages = history'
     /\ \A i \in DOMAIN workers \cap DOMAIN workers' :
          workers'[i].messages = workers[i].messages
     /\ \A i \in DOMAIN workers' :
          workers'[i].outcome \notin {"", "marshal", "newrequest"} =>
            workers'[i].sent = workers'[i].messages
     /\ step' \in {"worker", "relay"} =>
          UNCHANGED <<history, transcript, streaming, lastErr>>]_vars

\* A clear emptied the live history before the worker built its request: the
\* request still carries the system and the user message.
C12_Witness ==
  /\ step = "worker" /\ turn.cleared
  /\ DOMAIN workers = {streamCh}
  /\ workers[streamCh].outcome = "200" /\ workers[streamCh].lines = <<>>
  /\ Len(workers[streamCh].sent) = 2
  /\ workers[streamCh].sent[2].role = "user"
  /\ history = <<system>>

\* C13 as stated: right after a clear the session is idle.
C13_ClearIdle == step = "clear" => ~streaming

\* C13, amended: a clear leaves the streaming flag as it was, so after a clear
\* issued while a stream is in flight the session is still streaming, and as
\* long as it is an Enter is rejected: no worker is started and input, transcript
\* and history stay as they were.
C13_ClearKeepsStreaming ==
  [][/\ step' = "clear" => streaming' = streaming
     /\ (step' = "enter" /\ turn.cleared /\ streaming) =>
          UNCHANGED <<launched, streamCh, input, transcript, history, streaming>>]_vars

\* After a clear during a stream, Enter was pressed on a non-empty input and
\* rejected.
C13_Witness ==
  /\ step = "enter" /\ turn.cleared
  /\ streaming
  /\ TrimSpace(input) # <<>>
  /\ history = <<system>>

\* C14: a stream that failed or was cut off by a clear leaves no assistant
\* message: from a clear until the next accepted send the history holds no
\* assistant message, and when an Error is processed (no clear since the send)
\* the history is the one the send left.
C14_NoAssistantFromDeadStream ==
  /\ turn.cleared => \A k \in 1..Len(history) : history[k].role # "assistant"
  /\ (step = "error" /\ ~turn.cleared) => history = turn.hist

\* The frame rule as C15 words it: a Token for each choice of the frame with a
\* content fragment, in choice order, then one Done if any choice has a finish
\* indicator.
RuleTokens(cs) ==
  [k \in 1..Len(SelectSeq(cs, LAMBDA c : c.content # <<>>)) |->
     TokenMsg(SelectSeq(cs, LAMBDA c : c.content # <<>>)[k].content)]

RuleStops(cs) == \E k \in 1..Len(cs) : cs[k].finish # ""

RuleEvents(cs) == RuleTokens(cs) \o (IF RuleStops(cs) THEN <<DoneMsg>> ELSE <<>>)

\* The events of the records ls followed by the read error end, every frame
\* decoded by that rule and no record consumed after a Done.
RECURSIVE RuleDecode(_, _)
RuleDecode(ls, end) ==
  IF ls = <<>>
  THEN IF end = Nil THEN <<>>
       ELSE IF errorsIsEOF(end[1]) THEN <<DoneMsg>>
       ELSE <<ErrMsg(end[1])>>
  ELSE LET l == Head(ls)
       IN IF ~HasDataPrefix(l) THEN RuleDecode(Tail(ls), end)
          ELSE IF l.data = "[DONE]" THEN <<DoneMsg>>
          ELSE IF Unmarshal(l.data, l.choices).err THEN RuleDecode(Tail(ls), end)
          ELSE IF RuleStops(l.choices) THEN RuleEvents(l.choices)
          ELSE RuleEvents(l.choices) \o RuleDecode(Tail(ls), end)

\* C15: a worker that has returned wrote, for the records it read, the events of
\* the frame rule: every fragment of every parsed frame as a Token, in order, a
\* single Done after the frame in which a choice has a finish indicator, and it
\* read no record after that frame.
C15_FrameRule ==
  \A i \in DOMAIN workers :
    LET w == workers[i]
    IN (w.pc = "returned" /\ w.outcome = "200") =>
         /\ w.emitted = RuleDecode(w.lines, w.readErr)
         /\ \A k \in 1..Len(w.lines) :
              (WellFormed(w.lines[k]) /\ HasDataPrefix(w.lines[k])
                 /\ RuleStops(w.lines[k].choices)) => k = Len(w.lines)

\* The messages of worker i received by a command and not yet processed.
InFlight(i) == { m \in msgs : m.ch = i }

\* C16: every message a worker wrote is processed or in flight, at most one is
\* in flight, and every step of handleStreamMsg processes the oldest message of
\* the current stream's worker not yet processed, whatever keys, clears and
\* resizes came in between; a Token step appends that message's fragment to
\* the transcript.
C16_RelayOrdering ==
  [][/\ \A i \in DOMAIN workers' :
          /\ Cardinality(InFlight(i)') = Len(workers'[i].emitted) - workers'[i].handled
          /\ Cardinality(InFlight(i)') <= 1
     /\ step' \in {"token", "done", "error"} =>
          /\ streamCh \in DOMAIN workers
          /\ LET w == workers[streamCh]
                 k == w.handled + 1
             IN /\ k <= Len(w.emitted)
                /\ [ch |-> streamCh, msg |-> w.emitted[k]] \in msgs
                /\ msgs' = msgs \ {[ch |-> streamCh, msg |-> w.emitted[k]]}
                /\ workers'[streamCh].handled = k
                /\ step' = "token" <=> IsToken(w.emitted[k])
                /\ step' = "done" <=> w.emitted[k].done
                /\ step' = "token" => transcript' = transcript \o w.emitted[k].token]_vars

\* Two fragments and the Done of one stream were processed in that order, a key
\* typed meanwhile.
C16_Witness ==
  /\ step = "done" /\ ~turn.cleared
  /\ input # <<>>
  /\ workers[streamCh].emitted = <<TokenMsg(<<"Hi">>), TokenMsg(<<" ">>), DoneMsg>>
  /\ workers[streamCh].handled = 3
  /\ transcript = turn.trans \o <<"Hi", " ", "\n", "\n">>

\* The failure that ended worker w: the one of client.Do or the read error.
Cause(w) == IF w.outcome = "do" THEN ErrDial ELSE w.readErr[1]

\* Worker w, ended by a failure, reported it: its last message is the Error with
\* the cause and it wrote no Done; and once that Error is processed the session
\* is idle with the cause as last error and the history as the send left it.
FailureReported(i) ==
  LET w == workers[i]
  IN /\ Last(w.emitted) = ErrMsg(Cause(w))
     /\ \A k \in 1..Len(w.emitted) : ~w.emitted[k].done
     /\ (step = "error" /\ i = streamCh) =>
          (~streaming /\ lastErr = Some(Cause(w)) /\ history = turn.hist)

\* C17 as stated: a worker ended by a failed client.Do or by any read error
\* other than EOF reported the failure.
C17_TransportFailure ==
  \A i \in DOMAIN workers :
    LET w == workers[i]
    IN (w.pc = "returned" /\ (w.outcome = "do" \/ (w.readErr # Nil /\ w.readErr # Some(EOF))))
         => FailureReported(i)

\* C17, amended: a worker ended by a failed client.Do, or by a read error that is
\* neither EOF nor one whose text has "closed network connection", reported the
\* failure.
C17_TransportFailureNotClosed ==
  \A i \in DOMAIN workers :
    LET w == workers[i]
    IN (w.pc = "returned"
          /\ (w.outcome = "do"
                \/ (w.readErr # Nil /\ w.readErr # Some(EOF)
                      /\ ~Contains(w.readErr[1], "closed network connection"))))
         => FailureReported(i)

\* The connection was reset after one fragment: the Error was processed and the
\* fragment is not in the history.
C17_Witness ==
  /\ step = "error"
  /\ workers[streamCh].readErr = Some(ErrReset)
  /\ workers[streamCh].emitted = <<TokenMsg(<<"Hi">>), ErrMsg(ErrReset)>>
  /\ currentResponse = <<"Hi">>
  /\ history = turn.hist

\* C18: unless the program quits, a session that is streaming becomes idle and
\* every worker started returns, clears during the stream or not.
C18_StreamLiveness ==
  /\ streaming ~> (~streaming \/ quit)
  /\ \A i \in 1..MaxSends :
       (i \in DOMAIN workers) ~>
         (quit \/ i \notin DOMAIN workers \/ workers[i].pc = "returned")

\* A stream during which a clear was issued ended: its Done was processed after
\* a fragment, the session is idle and the worker has returned.
C18_Witness ==
  /\ step = "done" /\ turn.cleared
  /\ ~streaming /\ ~quit
  /\ workers[streamCh].pc = "returned"
  /\ workers[streamCh].handled = Len(workers[streamCh].emitted)
  /\ workers[streamCh].handled >= 2

IsPrefix(p, q) == Len(p) <= Len(q) /\ SubSeq(q, 1, Len(p)) = p

\* C19: every step but a clear leaves the transcript as a prefix of what it
\* becomes, and a clear leaves it empty; so only a clear shortens it.
C19_TranscriptAppendOnly ==
  [][/\ step' # "clear" => IsPrefix(transcript, transcript')
     /\ step' = "clear" => transcript' = <<>>
     /\ Len(transcript') < Len(transcript) => step' = "clear"]_vars

\* A send, a fragment and an Error each added to the end of the transcript.
C19_Witness ==
  /\ step = "error" /\ ~turn.cleared
  /\ turn.trans # <<>>
  /\ transcript = turn.trans \o <<"Hi">> \o ErrorText(ErrReset)

\* C20: a worker whose reading ended with bytes after the last newline wrote
\* the events of the terminated records and of the read error alone, a Done
\* for EOF, whatever those bytes are; and when its Done is processed the
\* assistant message is made of the fragments of the terminated records.
C20_UnterminatedTail ==
  \A i \in DOMAIN workers :
    LET w == workers[i]
    IN (w.pc = "returned" /\ w.outcome = "200" /\ w.readErr # Nil /\ w.tail # BlankLine) =>
         /\ w.emitted = Decode(w.lines, w.readErr)
         /\ w.readErr = Some(EOF) => Last(w.emitted) = DoneMsg
         /\ (step = "done" /\ i = streamCh) =>
              history = DoneHistory(turn.hist, Tokens(Decode(w.lines, w.readErr)))

\* After one terminated fragment the body ended with an unterminated frame that
\* has a fragment and a finish indicator: only the first fragment is recorded.
C20_Witness ==
  /\ step = "done" /\ ~turn.cleared
  /\ workers[streamCh].readErr = Some(EOF)
  /\ workers[streamCh].tail = Frame(<<Choice(<<"Hi">>, "stop")>>)
  /\ workers[streamCh].lines = <<Frame(<<Choice(<<"Hi">>, "")>>)>>
  /\ workers[streamCh].emitted = <<TokenMsg(<<"Hi">>), DoneMsg>>
  /\ history = Append(turn.hist, Msg("assistant", <<"Hi">>))

====
